---- MODULE Spec2Model ----
(***************************************************************************)
(* Model of the preference-state store of the book recommender             *)
(* (src/try_again/query_processor.py, src/try_again/data_loader.py).       *)
(*                                                                         *)
(* Conventions.  A dict is a function whose DOMAIN is its key set; dict    *)
(* keys and result tags are TLA+ strings.  A Python str whose characters   *)
(* the code inspects (titles, authors, numeric bounds, the illustrations   *)
(* word) is a sequence of one-character strings; a str that is only ever   *)
(* compared for equality (genre, publisher, language) is a TLA+ string.    *)
(* Cyrillic literals of the source are transliterated to ASCII.  A value   *)
(* held under a filter key is a pair <<type, value>>.  Every DataFrame of  *)
(* the program is a selection of rows of the catalog df, whose rows are    *)
(* pairwise distinct: it is modelled by the sequence of the catalog labels *)
(* (0-based, as in pandas) of its rows, in order; its own index after      *)
(* reset_index(drop=True) is the position in that sequence.  A list made   *)
(* by list(set(...)) is modelled by the set it enumerates.                 *)
(***************************************************************************)
EXTENDS Integers, Sequences, FiniteSets, TLC

VARIABLES
    current_state,     \* QueryState.current_state
    history,           \* QueryState.history (oldest first)
    filtered_df,       \* BookDataLoader.filtered_df
    metrics_filtered,  \* the DataFrame QueryProcessor.metrics_filtered was built on
    parsed_query,      \* the argument of the last process_query call
    result,            \* what the last process_query call returned
    prior,             \* observer: current_state as it was before the Layer or
                       \* Reset just made (EmptyState after a StepBack)
    layers,            \* observer: length of the current run of Layers, counted up to
                       \* MAX_HISTORY_STEPS + 1; a StepBack keeps only whether the run
                       \* it undoes was longer than MAX_HISTORY_STEPS
    backs,             \* observer: successful StepBacks since the last Layer or Reset
    repeated,          \* observer: the Layer just made repeats the query of the
                       \* operation before it
    phase              \* observer: "layers" while only Layers ran since construction,
                       \* "undone" after a successful StepBack that follows them,
                       \* "failed" after a StepBack that found no history, else "other"

store_vars == <<current_state, history, filtered_df, metrics_filtered,
                parsed_query, result, prior, layers, backs, repeated, phase>>

VARIABLES
    rec_filtered,      \* BookRecommender.metrics_filtered.df, as the labels of its rows
    call,              \* the arguments of a recommend_based_on_likes call
    rec,               \* what the call raised, scored and returned
    prev_call,         \* observer: the arguments of the call before this one
    prev_rec,          \* observer: the outcome of the call before this one
    rec_pc             \* "idle": no recommender; "ready": arguments chosen;
                       \* "done": the call returned

rec_vars == <<rec_filtered, call, rec, prev_call, prev_rec, rec_pc>>

vars == <<store_vars, rec_vars>>

-----------------------------------------------------------------------------
(* Python values held under the scalar / list filter keys.                 *)

PyStr(s) == <<"str", s>>
PyInt(n) == <<"int", n>>
PyBool(b) == <<"bool", b>>
PyList(l) == <<"list", l>>
Kind(v) == v[1]
Val(v) == v[2]

\* bool(value)
Truthy(v) ==
    CASE Kind(v) = "str"  -> Val(v) # <<>>
      [] Kind(v) = "int"  -> Val(v) # 0
      [] Kind(v) = "bool" -> Val(v)
      [] Kind(v) = "list" -> Val(v) # <<>>

\* isinstance(value, list)
IsList(v) == Kind(v) = "list"

\* DataFrame or None
None == [none |-> TRUE, rows |-> <<>>]
DF(rows) == [none |-> FALSE, rows |-> rows]

RECURSIVE SelectSeqBy(_, _)
\* [x for x in s if x not in seen], seen fixed while the comprehension runs
SelectSeqBy(s, seen) ==
    IF s = <<>> THEN <<>>
    ELSE IF Head(s) \in seen THEN SelectSeqBy(Tail(s), seen)
         ELSE <<Head(s)>> \o SelectSeqBy(Tail(s), seen)

Range(s) == {s[i] : i \in DOMAIN s}

-----------------------------------------------------------------------------
(* str helpers                                                             *)

Upper == {"A", "B", "T"}
Chars == Upper \cup {"a", "b", "c", "d", "e", "f", "g", "l", "n", "p", "r", "s",
                     "t", "u", "x", "z", "0", "1", "2", "3", "'"}
LowerTable == [c \in Chars |->
                 CASE c = "A" -> "a" [] c = "B" -> "b" [] c = "T" -> "t"
                   [] OTHER -> c]

\* str.lower()
lower(s) == [i \in DOMAIN s |-> LowerTable[s[i]]]

DigitValue == [c \in {"0", "1", "2", "3"} |->
                 CASE c = "0" -> 0 [] c = "1" -> 1 [] c = "2" -> 2 [] c = "3" -> 3]

\* int(s) raises ValueError unless s is a (here: unsigned, unpadded) numeral
IsNumeral(s) == s # <<>> /\ \A i \in DOMAIN s : s[i] \in DOMAIN DigitValue

RECURSIVE int(_)
int(s) == IF s = <<>> THEN 0
          ELSE 10 * int(SubSeq(s, 1, Len(s) - 1)) + DigitValue[s[Len(s)]]

\* Series.str.contains(pat, case=False, na=False) for a literal pattern
Contains(hay, pat) ==
    \E i \in 1..(Len(hay) + 1) :
        /\ i + Len(pat) - 1 <= Len(hay)
        /\ lower(SubSeq(hay, i, i + Len(pat) - 1)) = lower(pat)

-----------------------------------------------------------------------------
(* The catalog: BookDataLoader.df after load_data().                       *)

Book(t, a, g, y, p, pub, lang, age, ill) ==
    [title |-> t, author |-> a, genre |-> g, year |-> y, pages |-> p,
     publisher |-> pub, language |-> lang, age_restriction |-> age,
     has_illustrations |-> ill]

df == << Book(<<"A", "b">>,      <<"a", "1">>, "g1", 1, 1, "p1", "ru", 12, 1),
         Book(<<"b", "a">>,      <<"a", "2">>, "g2", 2, 2, "p2", "ru", 16, 0),
         Book(<<"a", "b", "c">>, <<"a", "1">>, "g2", 3, 3, "p1", "en", 12, 1) >>

\* books of other data sets a BookDistanceMetrics can be built on; their
\* genres are in genre_mapping. They carry the labels after the catalog's.
other_books ==
    << Book(<<"d">>, <<"a", "3">>, "klassika", 1, 1, "p1", "ru", 12, 1),
       Book(<<"e">>, <<"a", "3">>, "klassika", 3, 1, "p2", "en", 12, 1),
       Book(<<"f">>, <<"a", "2">>, "fentezi", 2, 3, "p2", "ru", 16, 0) >>

\* the row with index label i
Row(i) == IF i < Len(df) THEN df[i + 1] ELSE other_books[i + 1 - Len(df)]

\* df.copy(): every row of the catalog, in order
AllRows == [i \in DOMAIN df |-> i - 1]

\* "Est'" / "Net": the two words filter_books compares has_illustrations with
Est == <<"E", "s", "t", "'">>
Net == <<"N", "e", "t">>

\* the empty str, as a value of column col
EmptyOf(col) == IF col = "author" THEN <<>> ELSE ""

\* [g for g in values if g]
NonEmpty(values, col) == LET ne(g) == g # EmptyOf(col) IN SelectSeq(values, ne)

\* key in d and d[key]
Has(d, k) == k \in DOMAIN d /\ Truthy(d[k])

\* filtered[filtered[col].isin(values)], when the criterion is given
ListStep(rows, c, k) ==
    IF Has(c, k) /\ NonEmpty(Val(c[k]), k) # <<>>
    THEN LET keep(i) == Row(i)[k] \in Range(NonEmpty(Val(c[k]), k))
         IN  SelectSeq(rows, keep)
    ELSE rows

\* filtered[filtered[col] >= bound], when the criterion is given
GeStep(rows, c, k, col) ==
    IF Has(c, k) THEN LET keep(i) == Row(i)[col] >= Val(c[k]) IN SelectSeq(rows, keep)
    ELSE rows

\* filtered[filtered[col] <= bound], when the criterion is given
LeStep(rows, c, k, col) ==
    IF Has(c, k) THEN LET keep(i) == Row(i)[col] <= Val(c[k]) IN SelectSeq(rows, keep)
    ELSE rows

\* the has_illustrations step of filter_books
IllStep(rows, c) ==
    IF "has_illustrations" \in DOMAIN c
    THEN LET v == c["has_illustrations"]
             yes(i) == Row(i).has_illustrations = 1
             no(i)  == Row(i).has_illustrations = 0
         IN  IF (Kind(v) = "str" /\ Val(v) = Est) \/ (Kind(v) = "bool" /\ Val(v))
             THEN SelectSeq(rows, yes)
             ELSE IF (Kind(v) = "str" /\ Val(v) = Net) \/ (Kind(v) = "bool" /\ ~Val(v))
                  THEN SelectSeq(rows, no)
                  ELSE rows
    ELSE rows

\* BookDataLoader.filter_books: the rows of the re-indexed result
filter_books(c) ==
    LET f1 == ListStep(AllRows, c, "genre")
        f2 == ListStep(f1, c, "author")
        f3 == GeStep(f2, c, "year_from", "year")
        f4 == LeStep(f3, c, "year_to", "year")
        f5 == GeStep(f4, c, "pages_from", "pages")
        f6 == LeStep(f5, c, "pages_to", "pages")
        f7 == ListStep(f6, c, "language")
    IN  IllStep(f7, c)

\* BookDataLoader.get_book_by_title_author: the index label of the first
\* matching row, or -1 for None
get_book_by_title_author(title, author) ==
    LET hit(i) == /\ Contains(df[i].title, title)
                  /\ (author # <<>> => Contains(df[i].author, author))
        hits == {i \in DOMAIN df : hit(i)}
    IN  IF hits = {} THEN -1
        ELSE (CHOOSE i \in hits : \A j \in hits : i <= j) - 1

RECURSIVE get_book_indices_by_titles(_)
\* BookDataLoader.get_book_indices_by_titles(titles): authors is never passed
get_book_indices_by_titles(titles) ==
    IF titles = <<>> THEN <<>>
    ELSE LET b == get_book_by_title_author(Head(titles), <<>>)
         IN  (IF b = -1 THEN <<>> ELSE <<b>>)
             \o get_book_indices_by_titles(Tail(titles))

-----------------------------------------------------------------------------
(* QueryState                                                              *)

MAX_HISTORY_STEPS == 5

ListKeys == {"author", "publisher", "language", "age_restriction", "genre"}
ScalarKeys == {"year_from", "year_to", "pages_from", "pages_to",
               "has_illustrations"}

\* the 'filter' dict built by QueryState.reset
EmptyFilter ==
    [k \in ListKeys \cup ScalarKeys |->
        IF k \in ListKeys THEN PyList(<<>>) ELSE PyStr(<<>>)]

\* the current_state dict built by QueryState.reset
EmptyState ==
    [filter |-> EmptyFilter,
     feedback |-> [likes |-> <<>>, dislikes |-> <<>>],
     filtered_books |-> None,
     liked_indices |-> {},
     disliked_indices |-> {}]

\* QueryState._copy_state: a new dict with copies of every list and DataFrame
_copy_state(state) ==
    [filter |-> [k \in DOMAIN state.filter |-> state.filter[k]],
     feedback |-> [likes |-> state.feedback.likes,
                   dislikes |-> state.feedback.dislikes],
     filtered_books |-> state.filtered_books,
     liked_indices |-> state.liked_indices,
     disliked_indices |-> state.disliked_indices]

\* a copy that keeps the lists of the state it copies (dict(...) of the two
\* inner dicts): every list of the copy is the object the state holds
SharedLists_shallow(state) ==
    {k \in DOMAIN state.filter : IsList(state.filter[k])} \cup DOMAIN state.feedback

\* the lists of the copy _copy_state returns that are the very objects the
\* copied state holds: none, each list is rebuilt by list.copy()
SharedLists(state) == {}

\* a snapshot after the lists of the live state were changed in place: the
\* lists it shares with the live state show the change
InPlace(snapshot, live, shared) ==
    [snapshot EXCEPT
        !.filter = [k \in DOMAIN @ |-> IF k \in shared THEN live.filter[k] ELSE @[k]],
        !.feedback = [k \in DOMAIN @ |-> IF k \in shared THEN live.feedback[k] ELSE @[k]]]

\* a deque built without maxlen: nothing is ever dropped
deque_append_unbounded(h, x) == Append(h, x)

\* deque(maxlen=MAX_HISTORY_STEPS).append: a full deque drops its oldest entry
deque_append(h, x) ==
    IF Len(h) >= MAX_HISTORY_STEPS THEN Tail(h) \o <<x>> ELSE Append(h, x)

\* QueryState.reset: the new (current_state, history)
reset ==
    [current_state |-> EmptyState,
     history |-> deque_append(<<>>, _copy_state(EmptyState))]

RECURSIVE AppendNew(_, _)
\* for item in items: if item not in current_list: current_list.append(item)
AppendNew(current_list, items) ==
    IF items = <<>> THEN current_list
    ELSE AppendNew(IF Head(items) \in Range(current_list) THEN current_list
                   ELSE Append(current_list, Head(items)),
                   Tail(items))

\* the filter-merging loop extending a stored list with every supplied value
MergeFilters_extend_all(cur, new_filters) ==
    [key \in DOMAIN cur |->
        IF key \in DOMAIN new_filters
           /\ IsList(new_filters[key]) /\ Truthy(new_filters[key])
        THEN IF key \in ListKeys /\ IsList(cur[key])
             THEN PyList(Val(cur[key]) \o Val(new_filters[key]))
             ELSE new_filters[key]
        ELSE cur[key]]

\* the filter-merging loop of QueryState.update
MergeFilters(cur, new_filters) ==
    [key \in DOMAIN cur |->
        IF key \in DOMAIN new_filters
           /\ IsList(new_filters[key]) /\ Truthy(new_filters[key])
        THEN IF key \in ListKeys
             THEN IF IsList(cur[key])
                  THEN PyList(Val(cur[key])
                              \o SelectSeqBy(Val(new_filters[key]), Range(Val(cur[key]))))
                  ELSE new_filters[key]
             ELSE new_filters[key]
        ELSE cur[key]]

\* the feedback-merging loop appending every supplied title
MergeFeedback_append_all(cur, new_feedback) ==
    [key \in {"likes", "dislikes"} |->
        IF key \in DOMAIN new_feedback THEN cur[key] \o new_feedback[key]
        ELSE cur[key]]

\* the feedback-merging loop of QueryState.update
MergeFeedback(cur, new_feedback) ==
    [key \in {"likes", "dislikes"} |->
        IF key \in DOMAIN new_feedback /\ new_feedback[key] # <<>>
        THEN AppendNew(cur[key], new_feedback[key])
        ELSE cur[key]]

\* QueryState.update: the new (current_state, history)
UpdatedState(state, new_filters, new_feedback, filtered_books, liked_indices, disliked_indices) ==
    [filter |-> MergeFilters(state.filter, new_filters),
     feedback |-> MergeFeedback(state.feedback, new_feedback),
     filtered_books |-> filtered_books,
     liked_indices |-> liked_indices,
     disliked_indices |-> disliked_indices]

\* the history after update: the copy is appended, then extend() and append()
\* change the lists of current_state in place, and with them the lists that
\* the top snapshot (current_state is a copy of it, or it of current_state)
\* and the appended copy share with current_state
UpdatedHistory(state, h, live) ==
    deque_append([h EXCEPT ![Len(h)] = InPlace(@, live, SharedLists(@))],
                 InPlace(_copy_state(state), live, SharedLists(state)))

update(state, h, new_filters, new_feedback, filtered_books, liked_indices, disliked_indices) ==
    [history |-> UpdatedHistory(state, h,
                                UpdatedState(state, new_filters, new_feedback, filtered_books,
                                             liked_indices, disliked_indices)),
     current_state |-> UpdatedState(state, new_filters, new_feedback, filtered_books,
                                    liked_indices, disliked_indices)]

\* step_back with only the pop under the depth test: the top is restored and
\* returned even when nothing was popped
step_back_always_restores(state, h) ==
    LET popped == IF Len(h) > 1 THEN SubSeq(h, 1, Len(h) - 1) ELSE h
    IN  [current_state |-> _copy_state(popped[Len(popped)]),
         history |-> popped, returned |-> TRUE]

\* QueryState.step_back: the new (current_state, history) and whether a state
\* (rather than None) is returned
step_back(state, h) ==
    IF Len(h) > 1
    THEN LET popped == SubSeq(h, 1, Len(h) - 1)
         IN  [current_state |-> _copy_state(popped[Len(popped)]),
              history |-> popped, returned |-> TRUE]
    ELSE [current_state |-> state, history |-> h, returned |-> FALSE]

\* QueryState.get_history_info
get_history_info(h) ==
    [current_step |-> Len(h), max_steps |-> MAX_HISTORY_STEPS,
     can_go_back |-> Len(h) > 1]

-----------------------------------------------------------------------------
(* QueryProcessor                                                          *)

LayerTypes == {"search", "general", "recommendation"}

\* 'zanovo' ("anew"): the num_question value that asks for a reset
Zanovo == <<"z", "a", "n", "o", "v", "o">>

\* the words _extract_filters accepts for has_illustrations:
\* est', da, true, 1 / net, netu, false, 0
YesWords == {<<"e", "s", "t", "'">>, <<"d", "a">>, <<"t", "r", "u", "e">>, <<"1">>}
NoWords == {<<"n", "e", "t">>, <<"n", "e", "t", "u">>,
            <<"f", "a", "l", "s", "e">>, <<"0">>}

NumKeys == {"year_from", "year_to", "pages_from", "pages_to"}

\* dict.get(key, default)
Get(d, k, default) == IF k \in DOMAIN d THEN d[k] ELSE default

\* QueryProcessor._extract_filters
_extract_filters(filters) ==
    LET ill == IF Has(filters, "has_illustrations")
               THEN lower(Val(filters["has_illustrations"])) ELSE <<>>
        keys == {k \in {"genre", "author", "language"} : Has(filters, k)}
                \cup {k \in NumKeys : Has(filters, k) /\ IsNumeral(Val(filters[k]))}
                \cup (IF ill \in YesWords \cup NoWords
                      THEN {"has_illustrations"} ELSE {})
    IN  [k \in keys |->
            IF k \in NumKeys THEN PyInt(int(Val(filters[k])))
            ELSE IF k = "has_illustrations" THEN PyBool(ill \in YesWords)
            ELSE filters[k]]

\* QueryProcessor._combine_filters
_combine_filters(current, new) ==
    [key \in DOMAIN current |->
        IF key \in DOMAIN new
        THEN IF IsList(new[key]) /\ Truthy(new[key])
             THEN IF IsList(current[key])
                  THEN PyList(Val(current[key])
                              \o SelectSeqBy(Val(new[key]), Range(Val(current[key]))))
                  ELSE new[key]
             ELSE IF Truthy(new[key]) THEN new[key] ELSE current[key]
        ELSE current[key]]

\* the filter_criteria dict built by _apply_combined_filters
FilterCriteria(filters) ==
    LET keys == {k \in {"genre", "author", "year_from", "year_to", "pages_from",
                        "pages_to", "language"} : Has(filters, k)}
                \cup ({"has_illustrations"} \cap DOMAIN filters)
    IN  [k \in keys |-> filters[k]]

\* QueryProcessor._apply_combined_filters; the message is kept as its parts:
\* "applied" when some genre/author/year filter is named, then "found"
_apply_combined_filters(filters) ==
    LET c == FilterCriteria(filters)
        info == DOMAIN c \cap {"genre", "author", "year_from", "year_to"}
    IN  [filtered_books |-> DF(filter_books(c)),
         message |-> (IF info # {} THEN <<"applied">> ELSE <<>>) \o <<"found">>]

\* initialize_metrics that builds the metrics but leaves filtered_books alone
initialize_metrics_keeps_books(state) ==
    [current_state |-> state, metrics_filtered |-> DF(AllRows)]

\* QueryProcessor.initialize_metrics (data_loader.df is loaded)
initialize_metrics(state) ==
    [current_state |-> [state EXCEPT !.filtered_books = DF(AllRows)],
     metrics_filtered |-> DF(AllRows)]

\* QueryProcessor._handle_step_back
_handle_step_back(state, h, mf) ==
    LET sb == step_back(state, h)
        previous_state == sb.current_state
    IN  IF ~sb.returned
        THEN [current_state |-> sb.current_state, history |-> sb.history,
              metrics_filtered |-> mf,
              result |-> [query_type |-> "step_back",
                          message |-> <<"no_history">>,
                          history_info |-> get_history_info(sb.history)]]
        ELSE [current_state |-> sb.current_state, history |-> sb.history,
              metrics_filtered |-> IF ~previous_state.filtered_books.none
                                   THEN previous_state.filtered_books ELSE mf,
              result |-> [query_type |-> "step_back",
                          filtered_books |-> previous_state.filtered_books,
                          liked_indices |-> previous_state.liked_indices,
                          disliked_indices |-> previous_state.disliked_indices,
                          message |-> <<"step_back">>,
                          history_info |-> get_history_info(sb.history)]]

\* QueryProcessor._handle_reset
_handle_reset ==
    LET r == reset
        im == initialize_metrics(r.current_state)
    IN  [current_state |-> im.current_state, history |-> r.history,
         filtered_df |-> DF(AllRows), metrics_filtered |-> im.metrics_filtered,
         result |-> [query_type |-> "reset",
                     filtered_books |-> DF(AllRows),
                     liked_indices |-> {},
                     disliked_indices |-> {},
                     message |-> <<"reset">>,
                     history_info |-> get_history_info(r.history)]]

\* QueryProcessor.process_query for a search, general or recommendation
\* query (the layering path): the new store and the returned result
process_query(q, state, h, mf) ==
    LET query_type == Get(q, "question_type", "")
        current == _copy_state(state)
        new_filters == _extract_filters(Get(q, "filter", <<>>))
        fr == _apply_combined_filters(_combine_filters(current.filter, new_filters))
        hasFeedback == query_type = "recommendation" \/ "feedback" \in DOMAIN q
        feedback == Get(q, "feedback", <<>>)
        new_likes == IF hasFeedback THEN Get(feedback, "likes", <<>>) ELSE <<>>
        new_dislikes == IF hasFeedback THEN Get(feedback, "dislikes", <<>>) ELSE <<>>
        new_liked_indices == get_book_indices_by_titles(new_likes)
        new_disliked_indices == get_book_indices_by_titles(new_dislikes)
        liked == IF hasFeedback
                 THEN current.liked_indices \cup Range(new_liked_indices) ELSE {}
        disliked == IF hasFeedback
                    THEN current.disliked_indices \cup Range(new_disliked_indices)
                    ELSE {}
        new_feedback == [likes |-> new_likes, dislikes |-> new_dislikes]
        message ==
            fr.message
            \o (IF new_likes # <<>> /\ new_liked_indices = <<>>
                THEN <<"likes_not_found">> ELSE <<>>)
            \o (IF new_dislikes # <<>> /\ new_disliked_indices = <<>>
                THEN <<"dislikes_not_found">> ELSE <<>>)
        upd == update(state, h, new_filters, new_feedback, fr.filtered_books,
                      liked, disliked)
    IN  [current_state |-> upd.current_state,
         history |-> upd.history,
         filtered_df |-> fr.filtered_books,
         metrics_filtered |-> IF fr.filtered_books.rows # <<>>
                              THEN fr.filtered_books ELSE mf,
         result |-> [query_type |-> query_type,
                     new_filters |-> new_filters,
                     new_feedback |-> new_feedback,
                     filtered_books |-> upd.current_state.filtered_books,
                     liked_indices |-> upd.current_state.liked_indices,
                     disliked_indices |-> upd.current_state.disliked_indices,
                     comparison_books |-> <<>>,
                     message |-> message,
                     history_info |-> get_history_info(h)]]

-----------------------------------------------------------------------------
(* The queries the parser hands over                                       *)

T_ab == <<"a", "b">>
T_ba == <<"B", "a">>
T_zz == <<"z", "z">>

\* a like with a genre; scalar bounds, a repeated genre and a publisher
\* with no feedback field; likes and dislikes, one title unknown, one
\* repeated, with no filter field; empty filter values with empty feedback
LayerQueries ==
    { [question_type |-> "recommendation",
       filter |-> [genre |-> PyList(<<"g1">>)],
       feedback |-> [likes |-> <<T_ab>>, dislikes |-> <<>>]],
      [question_type |-> "search",
       filter |-> [genre |-> PyList(<<"g2", "g2">>),
                   publisher |-> PyList(<<"p1">>),
                   year_from |-> PyStr(<<"2">>),
                   year_to |-> PyStr(<<"x">>),
                   has_illustrations |-> PyStr(<<"T", "r", "u", "e">>)]],
      [question_type |-> "general",
       feedback |-> [likes |-> <<T_zz, T_ab>>, dislikes |-> <<T_ba, T_ba>>]],
      [question_type |-> "search",
       filter |-> [genre |-> PyList(<<>>), pages_to |-> PyStr(<<>>)],
       feedback |-> [likes |-> <<>>, dislikes |-> <<>>]] }

StepBackQuery == [question_type |-> "step_back"]
ResetQuery == [question_type |-> "other", num_question |-> Zanovo]

Queries == LayerQueries \cup {StepBackQuery, ResetQuery}

-----------------------------------------------------------------------------
(* BookDistanceMetrics over a DataFrame given by the labels of its rows.   *)
(* A float is held as an exact integer count of a unit: a weight in        *)
(* 1/WeightUnit, a sub-distance in 1/DistUnit, a composite distance or a    *)
(* similarity in 1/SimUnit.                                                 *)

\* taxonomic_distance's default max_depth
max_depth == 4
WeightUnit == 20
DistUnit == 2 * max_depth
SimUnit == WeightUnit * DistUnit

\* x / d for a float quotient the unit holds exactly
ExactDiv(x, d) == CHOOSE q \in {x \div d} : q * d = x

Abs(x) == IF x < 0 THEN -x ELSE x
Min(a, b) == IF a < b THEN a ELSE b
Max(a, b) == IF a > b THEN a ELSE b

\* df.iloc[i] of the DataFrame with these row labels
iloc(rows, i) == Row(rows[i + 1])

\* genre_mapping: the tree path of each genre of the data set
genre_mapping ==
    [g \in {"klassika", "antiutopiya", "fentezi", "skazka", "roman", "detektiv",
            "fantastika", "priklyucheniya", "satira"} |->
        CASE g = "klassika" -> <<"hudozhestvennaya", "proza", "klassika">>
          [] g = "antiutopiya" -> <<"hudozhestvennaya", "proza", "fantastika", "antiutopiya">>
          [] g = "fentezi" -> <<"hudozhestvennaya", "proza", "fantastika", "fentezi">>
          [] g = "skazka" -> <<"detskaya", "skazka">>
          [] g = "roman" -> <<"hudozhestvennaya", "proza", "roman">>
          [] g = "detektiv" -> <<"hudozhestvennaya", "proza", "detektiv">>
          [] g = "fantastika" -> <<"hudozhestvennaya", "proza", "fantastika">>
          [] g = "priklyucheniya" -> <<"hudozhestvennaya", "proza", "priklyucheniya">>
          [] g = "satira" -> <<"hudozhestvennaya", "proza", "satira">>]

\* _get_genre_path: the path split at the dots, <<>> for the empty path
_get_genre_path(genre) ==
    IF genre \in DOMAIN genre_mapping THEN genre_mapping[genre] ELSE <<>>

\* the common level taken as the shorter depth whenever the roots agree
_find_common_ancestor_level_rooted(path1, path2) ==
    IF path1 = <<>> \/ path2 = <<>> THEN 0
    ELSE IF Head(path1) = Head(path2) THEN Min(Len(path1), Len(path2)) ELSE 0

RECURSIVE _find_common_ancestor_level(_, _)
_find_common_ancestor_level(path1, path2) ==
    IF path1 = <<>> \/ path2 = <<>> THEN 0
    ELSE IF Head(path1) = Head(path2)
         THEN 1 + _find_common_ancestor_level(Tail(path1), Tail(path2))
         ELSE 0

\* taxonomic_distance with the equality of the labels tested first
taxonomic_distance_labels_first(genre1, genre2) ==
    LET path1 == _get_genre_path(genre1)
        path2 == _get_genre_path(genre2)
    IN  IF genre1 = genre2 THEN 0
        ELSE IF path1 = <<>> \/ path2 = <<>> THEN DistUnit
        ELSE Min(ExactDiv((Len(path1) + Len(path2)
                              - 2 * _find_common_ancestor_level(path1, path2)) * DistUnit,
                          2 * max_depth),
                 DistUnit)

\* taxonomic_distance, in 1/DistUnit
taxonomic_distance(genre1, genre2) ==
    LET path1 == _get_genre_path(genre1)
        path2 == _get_genre_path(genre2)
    IN  IF path1 = <<>> \/ path2 = <<>> THEN DistUnit
        ELSE IF path1 = path2 THEN 0
        ELSE Min(ExactDiv((Len(path1) + Len(path2)
                              - 2 * _find_common_ancestor_level(path1, path2)) * DistUnit,
                          2 * max_depth),
                 DistUnit)

\* the values of a column of the DataFrame
Column(rows, feature) == {Row(rows[i])[feature] : i \in DOMAIN rows}
SetMin(S) == CHOOSE x \in S : \A y \in S : x <= y
SetMax(S) == CHOOSE x \in S : \A y \in S : x >= y

\* scalers[feature].transform: MinMaxScaler fitted on the column, in 1/DistUnit
\* (a constant column is scaled by 1, so every value of it maps to 0)
transform(rows, feature, value) ==
    LET lo == SetMin(Column(rows, feature))
        hi == SetMax(Column(rows, feature))
    IN  IF hi = lo THEN (value - lo) * DistUnit
        ELSE ExactDiv((value - lo) * DistUnit, hi - lo)

numerical_features == <<"year", "pages">>

\* the difference of the normalized vectors summed without abs()
manhattan_distance_signed(rows, i, j) ==
    LET d(f) == transform(rows, f, iloc(rows, i)[f]) - transform(rows, f, iloc(rows, j)[f])
    IN  d(numerical_features[1]) + d(numerical_features[2])

\* manhattan_distance over get_numerical_vector, in 1/DistUnit
manhattan_distance(rows, i, j) ==
    LET d(f) == Abs(transform(rows, f, iloc(rows, i)[f])
                    - transform(rows, f, iloc(rows, j)[f]))
    IN  d(numerical_features[1]) + d(numerical_features[2])

\* categorical_distance and bin_distance, in 1/DistUnit
categorical_distance(val1, val2) == IF val1 = val2 THEN 0 ELSE DistUnit

\* the weights composite_distance uses when it is given None, in 1/WeightUnit
MetricDefaultWeights ==
    [genre |-> 6, has_illustrations |-> 3, author |-> 2, publisher |-> 1,
     language |-> 1, numerical |-> 7]

\* weights=None
NoWeights == [none |-> TRUE]

\* composite_distance, in 1/SimUnit
composite_distance(rows, book1_idx, book2_idx, weights) ==
    LET w == IF weights = NoWeights THEN MetricDefaultWeights ELSE weights
        book1 == iloc(rows, book1_idx)
        book2 == iloc(rows, book2_idx)
    IN  w.genre * taxonomic_distance(book1.genre, book2.genre)
        + w.numerical * manhattan_distance(rows, book1_idx, book2_idx)
        + w.author * categorical_distance(book1.author, book2.author)
        + w.publisher * categorical_distance(book1.publisher, book2.publisher)
        + w.language * categorical_distance(book1.language, book2.language)
        + w.has_illustrations
            * categorical_distance(book1.has_illustrations, book2.has_illustrations)

\* similarity_score, in 1/SimUnit
similarity_score(rows, book1_idx, book2_idx, weights) ==
    SimUnit - composite_distance(rows, book1_idx, book2_idx, weights)

-----------------------------------------------------------------------------
(* BookRecommender. metrics_full.df and metrics_filtered.df are given by   *)
(* their row labels (full, filt); a book_idx is a position in one of them.  *)
(* A score is an exact integer count of 1/ScoreUnit.                        *)

\* Config.DEFAULT_WEIGHTS, in 1/WeightUnit
DEFAULT_WEIGHTS ==
    [genre |-> 7, has_illustrations |-> 3, author |-> 4, publisher |-> 1,
     language |-> 1, numerical |-> 4]
\* Config.DEFAULT_N_RECOMMENDATIONS
DEFAULT_N_RECOMMENDATIONS == 5
\* Config.DEFAULT_PENALTY_FACTOR, in 1/FactorUnit
DEFAULT_PENALTY_FACTOR == 7
FactorUnit == 10

\* units that hold total / len(liked_indices), a boost and 1 - penalty exactly
LikesUnit == 2
BoostUnit == 2500
PenaltyUnit == SimUnit * FactorUnit
ScoreUnit == SimUnit * LikesUnit * BoostUnit * PenaltyUnit

\* range(len(metrics_filtered.df))
Positions(filt) == 0..(Len(filt) - 1)

RECURSIVE total_similarity(_, _, _, _)
\* the sum of similarity_score(book_idx, liked_idx, weights) over liked_indices
total_similarity(full, book_idx, liked_indices, weights) ==
    IF liked_indices = <<>> THEN 0
    ELSE similarity_score(full, book_idx, Head(liked_indices), weights)
         + total_similarity(full, book_idx, Tail(liked_indices), weights)

RECURSIVE max_similarity(_, _, _, _)
\* max_similarity = 0, then max(max_similarity, similarity) over the indices
max_similarity(full, book_idx, indices, weights) ==
    IF indices = <<>> THEN 0
    ELSE Max(max_similarity(full, book_idx, Tail(indices), weights),
             similarity_score(full, book_idx, Head(indices), weights))

\* total_similarity / len(liked_indices) as a score
avg_similarity(full, book_idx, liked_indices, weights) ==
    total_similarity(full, book_idx, liked_indices, weights)
        * ExactDiv(LikesUnit, Len(liked_indices))
        * (ScoreUnit \div (SimUnit * LikesUnit))

\* how often x occurs in the list
CountOf(l, x) == Cardinality({i \in DOMAIN l : l[i] = x})

\* Counter(l).most_common(1)[0][0]: the most frequent element, the first
\* encountered among equally frequent ones
most_common(l) ==
    l[CHOOSE i \in DOMAIN l :
         /\ \A j \in DOMAIN l : CountOf(l, l[j]) <= CountOf(l, l[i])
         /\ \A j \in 1..(i - 1) : CountOf(l, l[j]) < CountOf(l, l[i])]

\* the boost of one scored book, in 1/BoostUnit
Boost(genres, authors, book) ==
    LET b1 == IF genres # <<>> /\ most_common(genres) # ""
                 /\ book.genre = most_common(genres)
              THEN ExactDiv(BoostUnit * 12, 10) ELSE BoostUnit
        b2 == IF authors # <<>> /\ most_common(authors) # <<>>
                 /\ book.author = most_common(authors)
              THEN ExactDiv(b1 * 13, 10) ELSE b1
        matching_genres == CountOf(genres, book.genre)
        b3 == IF matching_genres > 1
              THEN ExactDiv(b2 * (100 + 15 * matching_genres), 100) ELSE b2
        matching_authors == CountOf(authors, book.author)
    IN  IF matching_authors > 1
        THEN ExactDiv(b3 * (10 + 2 * matching_authors), 10) ELSE b3

\* BookRecommender._boost_by_common_features
_boost_by_common_features(full, filt, liked_indices, book_scores) ==
    LET genres == [i \in DOMAIN liked_indices |-> iloc(full, liked_indices[i]).genre]
        authors == [i \in DOMAIN liked_indices |-> iloc(full, liked_indices[i]).author]
    IN  [book_idx \in DOMAIN book_scores |->
            ExactDiv(book_scores[book_idx], BoostUnit)
                * Boost(genres, authors, iloc(filt, book_idx))]

\* BookRecommender._average_strategy
_average_strategy(full, filt, liked_indices, weights) ==
    [book_idx \in {p \in Positions(filt) : p \notin Range(liked_indices)} |->
        avg_similarity(full, book_idx, liked_indices, weights)]

\* BookRecommender._combined_strategy
_combined_strategy(full, filt, liked_indices, weights) ==
    LET book_scores ==
            [book_idx \in {p \in Positions(filt) : p \notin Range(liked_indices)} |->
                avg_similarity(full, book_idx, liked_indices, weights)]
    IN  _boost_by_common_features(full, filt, liked_indices, book_scores)

\* BookRecommender._union_strategy
_union_strategy(full, filt, liked_indices, weights) ==
    [book_idx \in {p \in Positions(filt) : p \notin Range(liked_indices)} |->
        max_similarity(full, book_idx, liked_indices, weights)
            * (ScoreUnit \div SimUnit)]

\* the content_boost strategy without the booster
_content_boost_strategy_unboosted(full, filt, liked_indices, weights) ==
    _average_strategy(full, filt, liked_indices, weights)

\* BookRecommender._content_boost_strategy
_content_boost_strategy(full, filt, liked_indices, weights) ==
    _boost_by_common_features(full, filt, liked_indices,
                              _average_strategy(full, filt, liked_indices, weights))

\* the penalty added to the score instead of taken from it
_apply_dislike_penalty_rewards(full, all_scores, disliked_indices, penalty_factor) ==
    [book_idx \in {p \in DOMAIN all_scores : p \notin Range(disliked_indices)} |->
        LET penalty == max_similarity(full, book_idx, disliked_indices, NoWeights)
                          * penalty_factor
        IN  Max(ExactDiv(all_scores[book_idx], PenaltyUnit) * (PenaltyUnit + penalty), 0)]

\* BookRecommender._apply_dislike_penalty
_apply_dislike_penalty(full, all_scores, disliked_indices, penalty_factor) ==
    [book_idx \in {p \in DOMAIN all_scores : p \notin Range(disliked_indices)} |->
        LET penalty == max_similarity(full, book_idx, disliked_indices, NoWeights)
                          * penalty_factor
        IN  Max(ExactDiv(all_scores[book_idx], PenaltyUnit) * (PenaltyUnit - penalty), 0)]

RECURSIVE sorted_unstable(_)
\* a descending sort that puts the later of two equal scores first
sorted_unstable(all_scores) ==
    IF DOMAIN all_scores = {} THEN <<>>
    ELSE LET top == CHOOSE k \in DOMAIN all_scores :
                        \A j \in DOMAIN all_scores :
                            \/ all_scores[j] < all_scores[k]
                            \/ all_scores[j] = all_scores[k] /\ k >= j
         IN  <<<<top, all_scores[top]>>>>
             \o sorted_unstable([j \in DOMAIN all_scores \ {top} |-> all_scores[j]])

RECURSIVE sorted(_)
\* sorted(all_scores.items(), key=lambda x: x[1], reverse=True): a stable sort
\* of a dict whose keys were inserted in increasing order
sorted(all_scores) ==
    IF DOMAIN all_scores = {} THEN <<>>
    ELSE LET top == CHOOSE k \in DOMAIN all_scores :
                        \A j \in DOMAIN all_scores :
                            \/ all_scores[j] < all_scores[k]
                            \/ all_scores[j] = all_scores[k] /\ k <= j
         IN  <<<<top, all_scores[top]>>>>
             \o sorted([j \in DOMAIN all_scores \ {top} |-> all_scores[j]])

\* the strategy dispatch of recommend_based_on_likes
StrategyScores(full, filt, liked_indices, strategy, weights) ==
    CASE strategy = "combined" -> _combined_strategy(full, filt, liked_indices, weights)
      [] strategy = "average" -> _average_strategy(full, filt, liked_indices, weights)
      [] strategy = "union" -> _union_strategy(full, filt, liked_indices, weights)
      [] strategy = "content_boost" ->
             _content_boost_strategy(full, filt, liked_indices, weights)
      [] OTHER -> _combined_strategy(full, filt, liked_indices, weights)

\* what a call leaves behind when it scores nothing
NoScores == [raised |-> "", all_scores |-> <<>>, recommendations |-> <<>>]

\* if disliked_indices: all_scores = self._apply_dislike_penalty(...)
Penalized(full, scored, c) ==
    IF c.disliked_indices # <<>>
    THEN _apply_dislike_penalty(full, scored, c.disliked_indices, c.penalty_factor)
    ELSE scored

\* for idx in liked_indices: if idx in all_scores: del all_scores[idx]
WithoutLiked(penalized, liked_indices) ==
    [p \in DOMAIN penalized \ Range(liked_indices) |-> penalized[p]]

\* recommendations = sorted(...); return recommendations[:n_recommendations]
Ranking(all_scores, n_recommendations) ==
    LET recommendations == sorted(all_scores)
    IN  [raised |-> "", all_scores |-> all_scores,
         recommendations |->
             SubSeq(recommendations, 1, Min(n_recommendations, Len(recommendations)))]

\* recommend_based_on_likes from the weights default on
ScoreAndRank(full, filt, c) ==
    Ranking(WithoutLiked(Penalized(full,
                                   StrategyScores(full, filt, c.liked_indices, c.strategy,
                                                  IF c.weights = NoWeights
                                                  THEN DEFAULT_WEIGHTS ELSE c.weights),
                                   c),
                         c.liked_indices),
            c.n_recommendations)

\* recommend_based_on_likes without its first test: with no like the averaging
\* strategies divide by len(liked_indices) = 0 at the first candidate
recommend_based_on_likes_unguarded(full, filt, c) ==
    IF c.liked_indices = <<>> /\ c.strategy # "union" /\ filt # <<>>
    THEN [NoScores EXCEPT !.raised = "ZeroDivisionError"]
    ELSE ScoreAndRank(full, filt, c)

\* BookRecommender.recommend_based_on_likes: the exception raised ("" for
\* none), all_scores as it is sorted, and the list returned
recommend_based_on_likes(full, filt, c) ==
    IF c.liked_indices = <<>> THEN NoScores ELSE ScoreAndRank(full, filt, c)

-----------------------------------------------------------------------------
(* The store as a state machine                                            *)

\* no recommender call is under way
RecIdle ==
    /\ rec_filtered = <<>>
    /\ call = <<>>
    /\ rec = NoScores
    /\ prev_call = <<>>
    /\ prev_rec = NoScores
    /\ rec_pc = "idle"

\* QueryProcessor.__init__ followed by initialize_metrics, as in
\* BookRecommendationSystem.initialize
StoreInit ==
    /\ current_state = initialize_metrics(reset.current_state).current_state
    /\ history = reset.history
    /\ filtered_df = DF(AllRows)
    /\ metrics_filtered = initialize_metrics(reset.current_state).metrics_filtered
    /\ parsed_query = <<>>
    /\ result = <<>>
    /\ prior = EmptyState
    /\ layers = 0
    /\ backs = 0
    /\ repeated = FALSE
    /\ phase = "layers"

Init == StoreInit /\ RecIdle

IsStepBack(q) == Get(q, "question_type", "") = "step_back"
IsReset(q) == /\ Get(q, "question_type", "") = "other"
              /\ Get(q, "num_question", <<>>) = Zanovo

\* process_query with a search / general / recommendation query
Layer(q) ==
    /\ ~IsStepBack(q) /\ ~IsReset(q)
    /\ Get(q, "question_type", "") \in LayerTypes
    /\ \E r \in {process_query(q, current_state, history, metrics_filtered)} :
           /\ current_state' = r.current_state
           /\ history' = r.history
           /\ filtered_df' = r.filtered_df
           /\ metrics_filtered' = r.metrics_filtered
           /\ result' = r.result
    /\ parsed_query' = q
    /\ repeated' = (parsed_query = q)
    /\ prior' = current_state
    /\ layers' = IF backs = 0 /\ phase # "failed"
                 THEN Min(layers + 1, MAX_HISTORY_STEPS + 1) ELSE 1
    /\ backs' = 0
    /\ phase' = IF phase = "layers" THEN "layers" ELSE "other"
    /\ UNCHANGED rec_vars

\* process_query with question_type step_back
StepBack(q) ==
    /\ IsStepBack(q)
    /\ \E r \in {_handle_step_back(current_state, history, metrics_filtered)} :
           /\ current_state' = r.current_state
           /\ history' = r.history
           /\ metrics_filtered' = r.metrics_filtered
           /\ result' = r.result
           /\ backs' = IF "filtered_books" \in DOMAIN r.result THEN backs + 1 ELSE backs
           /\ phase' = IF "filtered_books" \in DOMAIN r.result
                       THEN (IF phase = "layers" THEN "undone" ELSE "other")
                       ELSE "failed"
    /\ parsed_query' = q
    /\ repeated' = FALSE
    /\ prior' = EmptyState
    /\ layers' = IF layers > MAX_HISTORY_STEPS THEN layers ELSE 0
    /\ UNCHANGED <<filtered_df, rec_vars>>

\* process_query with the reset command
Reset(q) ==
    /\ ~IsStepBack(q) /\ IsReset(q)
    /\ \E r \in {_handle_reset} :
           /\ current_state' = r.current_state
           /\ history' = r.history
           /\ filtered_df' = r.filtered_df
           /\ metrics_filtered' = r.metrics_filtered
           /\ result' = r.result
    /\ parsed_query' = q
    /\ repeated' = FALSE
    /\ prior' = current_state
    /\ layers' = 0
    /\ backs' = 0
    /\ phase' = "other"
    /\ UNCHANGED rec_vars

Next == \E q \in Queries : Layer(q) \/ StepBack(q) \/ Reset(q)

Spec == Init /\ [][Next]_vars

-----------------------------------------------------------------------------
(* The recommender called on chosen arguments                              *)

RECURSIVE Ascending(_)
\* the labels of S in catalog order
Ascending(S) ==
    IF S = {} THEN <<>>
    ELSE <<SetMin(S)>> \o Ascending(S \ {SetMin(S)})

Labels == Range(AllRows)

\* the DataFrames filter_books can return that hold a book
FilteredFrames == {Ascending(S) : S \in SUBSET Labels \ {{}}}

\* list(set(...)) of catalog indices: no index twice, in any order
LikedLists ==
    {<<>>} \cup {<<i>> : i \in Labels}
           \cup {p \in Labels \X Labels : p[1] # p[2]}
DislikedLists ==
    {<<>>} \cup {<<i>> : i \in Labels}
           \cup {p \in Labels \X Labels : p[1] < p[2]}

Strategies == {"combined", "average", "union", "content_boost", "other"}
PenaltyFactors == {0, DEFAULT_PENALTY_FACTOR, FactorUnit}

\* caller-supplied weights that sum to more than 1
HeavyWeights == [DEFAULT_WEIGHTS EXCEPT !.genre = 8]

Calls ==
    [liked_indices : LikedLists, disliked_indices : DislikedLists,
     n_recommendations : {DEFAULT_N_RECOMMENDATIONS, 1},
     strategy : Strategies, penalty_factor : PenaltyFactors,
     weights : {NoWeights, HeavyWeights}]

RecInit ==
    /\ StoreInit
    /\ rec_filtered \in FilteredFrames
    /\ call \in Calls
    /\ rec = NoScores
    /\ prev_call = <<>>
    /\ prev_rec = NoScores
    /\ rec_pc = "ready"

\* recommender.recommend_based_on_likes(...)
Recommend ==
    /\ rec_pc = "ready"
    /\ rec' = recommend_based_on_likes(AllRows, rec_filtered, call)
    /\ rec_pc' = "done"
    /\ UNCHANGED <<store_vars, rec_filtered, call, prev_call, prev_rec>>

\* the first call again with a larger penalty_factor
RaisePenalty(p) ==
    /\ rec_pc = "done" /\ prev_call = <<>>
    /\ p > call.penalty_factor
    /\ call' = [call EXCEPT !.penalty_factor = p]
    /\ rec' = recommend_based_on_likes(AllRows, rec_filtered, call')
    /\ prev_call' = call
    /\ prev_rec' = rec
    /\ UNCHANGED <<store_vars, rec_filtered, rec_pc>>

\* the first call again with another strategy
SwitchStrategy(s) ==
    /\ rec_pc = "done" /\ prev_call = <<>>
    /\ s # call.strategy
    /\ call' = [call EXCEPT !.strategy = s]
    /\ rec' = recommend_based_on_likes(AllRows, rec_filtered, call')
    /\ prev_call' = call
    /\ prev_rec' = rec
    /\ UNCHANGED <<store_vars, rec_filtered, rec_pc>>

RecNext ==
    \/ Recommend
    \/ \E p \in PenaltyFactors : RaisePenalty(p)
    \/ \E s \in Strategies : SwitchStrategy(s)

SpecRec == RecInit /\ [][RecNext]_vars

-----------------------------------------------------------------------------
(* BookDistanceMetrics called on chosen arguments. rec_filtered is the      *)
(* DataFrame the metrics were built on, call the method and its arguments,  *)
(* rec the value returned.                                                  *)

\* genre labels: those of genre_mapping, those of the catalog, the empty one
GenreLabels == DOMAIN genre_mapping \cup {"g1", "g2", ""}

\* the labels of the catalog's books and of the other books
AllLabels == 0..(Len(df) + Len(other_books) - 1)

\* DataFrames of two books or more
MetricFrames == {Ascending(S) : S \in {T \in SUBSET AllLabels : Cardinality(T) > 1}}

TaxonomicCalls ==
    [op : {"taxonomic_distance"}, genre1 : GenreLabels, genre2 : GenreLabels]

CompositeCalls(rows) ==
    [op : {"composite_distance"}, book1_idx : Positions(rows),
     book2_idx : Positions(rows),
     weights : {NoWeights, DEFAULT_WEIGHTS, HeavyWeights}]

MetricInit ==
    /\ StoreInit
    /\ \/ rec_filtered = AllRows /\ call \in TaxonomicCalls
       \/ rec_filtered \in MetricFrames /\ call \in CompositeCalls(rec_filtered)
    /\ rec = NoScores
    /\ prev_call = <<>>
    /\ prev_rec = NoScores
    /\ rec_pc = "ready"

\* the value the method of the call returns
MetricValue(rows, c) ==
    IF c.op = "taxonomic_distance"
    THEN [value |-> taxonomic_distance(c.genre1, c.genre2)]
    ELSE [value |-> composite_distance(rows, c.book1_idx, c.book2_idx, c.weights)]

\* metrics.taxonomic_distance(genre1, genre2)
TaxonomicDistance ==
    /\ rec_pc = "ready" /\ call.op = "taxonomic_distance"
    /\ rec' = MetricValue(rec_filtered, call)
    /\ rec_pc' = "done"
    /\ UNCHANGED <<store_vars, rec_filtered, call, prev_call, prev_rec>>

\* metrics.composite_distance(book1_idx, book2_idx, weights)
CompositeDistance ==
    /\ rec_pc = "ready" /\ call.op = "composite_distance"
    /\ rec' = MetricValue(rec_filtered, call)
    /\ rec_pc' = "done"
    /\ UNCHANGED <<store_vars, rec_filtered, call, prev_call, prev_rec>>

\* the call with its two genres, or its two books, exchanged
Exchanged(c) ==
    IF c.op = "taxonomic_distance"
    THEN [c EXCEPT !.genre1 = c.genre2, !.genre2 = c.genre1]
    ELSE [c EXCEPT !.book1_idx = c.book2_idx, !.book2_idx = c.book1_idx]

\* the first call again with the two arguments exchanged
CallExchanged ==
    /\ rec_pc = "done" /\ prev_call = <<>>
    /\ call' = Exchanged(call)
    /\ rec' = MetricValue(rec_filtered, call')
    /\ prev_call' = call
    /\ prev_rec' = rec
    /\ UNCHANGED <<store_vars, rec_filtered, rec_pc>>

MetricNext == TaxonomicDistance \/ CompositeDistance \/ CallExchanged

SpecMetric == MetricInit /\ [][MetricNext]_vars

-----------------------------------------------------------------------------
(* many_likes/RecomendedBooks.py: recommend_based_on_multiple_likes over    *)
(* one BookDistanceMetrics. rec_filtered is metrics.df, a book_idx is a     *)
(* position in it. A dict is the sequence of its items in insertion order,  *)
(* an item a pair <<book_idx, score>>, a score an exact integer count of    *)
(* 1/ManyScoreUnit.                                                         *)

ManyScoreUnit == SimUnit * LikesUnit * BoostUnit

\* total_similarity / len(liked_indices) as a score
many_avg_similarity(rows, book_idx, liked_indices, weights) ==
    total_similarity(rows, book_idx, liked_indices, weights)
        * ExactDiv(LikesUnit, Len(liked_indices)) * BoostUnit

\* the boost of one scored book, in 1/BoostUnit
many_Boost(genres, authors, book) ==
    LET b1 == IF genres # <<>> /\ most_common(genres) # ""
                 /\ book.genre = most_common(genres)
              THEN ExactDiv(BoostUnit * 12, 10) ELSE BoostUnit
        b2 == IF authors # <<>> /\ most_common(authors) # <<>>
                 /\ book.author = most_common(authors)
              THEN ExactDiv(b1 * 13, 10) ELSE b1
        matching_genres == CountOf(genres, book.genre)
    IN  IF matching_genres > 1
        THEN ExactDiv(b2 * (10 + matching_genres), 10) ELSE b2

\* _boost_by_common_features: the items keep their order
many_boost_by_common_features(rows, liked_indices, book_scores) ==
    LET genres == [i \in DOMAIN liked_indices |-> iloc(rows, liked_indices[i]).genre]
        authors == [i \in DOMAIN liked_indices |-> iloc(rows, liked_indices[i]).author]
    IN  [i \in DOMAIN book_scores |->
            <<book_scores[i][1],
              ExactDiv(book_scores[i][2], BoostUnit)
                  * many_Boost(genres, authors, iloc(rows, book_scores[i][1]))>>]

RECURSIVE sorted_items(_)
\* sorted(scores.items(), key=lambda x: x[1], reverse=True): a stable sort
sorted_items(items) ==
    IF items = <<>> THEN <<>>
    ELSE LET top == CHOOSE k \in DOMAIN items :
                        \A j \in DOMAIN items :
                            \/ items[j][2] < items[k][2]
                            \/ items[j][2] = items[k][2] /\ k <= j
         IN  <<items[top]>>
             \o sorted_items(SubSeq(items, 1, top - 1)
                              \o SubSeq(items, top + 1, Len(items)))

\* recommendations[:n]
FirstN(recommendations, n) == SubSeq(recommendations, 1, Min(n, Len(recommendations)))

\* book_scores of _average_strategy and _combined_strategy: for book_idx in
\* range(len(metrics.df)), the liked ones skipped when exclude_liked
many_book_scores(rows, liked_indices, weights, exclude_liked) ==
    LET kept(item) == ~(exclude_liked /\ item[1] \in Range(liked_indices))
    IN  SelectSeq([i \in 1..Len(rows) |->
                      <<i - 1, many_avg_similarity(rows, i - 1, liked_indices, weights)>>],
                  kept)

\* _combined_strategy
many_combined_strategy(rows, liked_indices, n_recommendations, weights, exclude_liked) ==
    FirstN(sorted_items(many_boost_by_common_features(rows, liked_indices,
               many_book_scores(rows, liked_indices, weights, exclude_liked))),
           n_recommendations)

\* _average_strategy
many_average_strategy(rows, liked_indices, n_recommendations, weights, exclude_liked) ==
    FirstN(sorted_items(many_book_scores(rows, liked_indices, weights, exclude_liked)),
           n_recommendations)

\* BookDistanceMetrics.get_similar_books, the similarities as scores
get_similar_books(rows, book_idx, n, weights) ==
    LET other(item) == item[1] # book_idx
    IN  FirstN(sorted_items(SelectSeq(
                   [i \in 1..Len(rows) |->
                       <<i - 1, similarity_score(rows, book_idx, i - 1, weights)
                                    * LikesUnit * BoostUnit>>],
                   other)),
               n)

RECURSIVE all_recommendations(_, _, _, _)
\* for liked_idx in liked_indices: all_recommendations.extend(similar)
all_recommendations(rows, liked_indices, n, weights) ==
    IF liked_indices = <<>> THEN <<>>
    ELSE get_similar_books(rows, Head(liked_indices), n, weights)
         \o all_recommendations(rows, Tail(liked_indices), n, weights)

\* merged_scores: a book enters at its first item, with the largest of its scores
merged_scores(found) ==
    LET first(i) == \A j \in 1..(i - 1) : found[j][1] # found[i][1]
        largest(i) == CHOOSE v \in {found[j][2] : j \in {k \in DOMAIN found :
                                                           found[k][1] = found[i][1]}} :
                          \A j \in DOMAIN found :
                              found[j][1] = found[i][1] => found[j][2] <= v
        firsts == {i \in DOMAIN found : first(i)}
        nth(n) == CHOOSE i \in firsts : Cardinality({k \in firsts : k < i}) = n - 1
    IN  [n \in 1..Cardinality(firsts) |-> <<found[nth(n)][1], largest(nth(n))>>]

\* _union_strategy
many_union_strategy(rows, liked_indices, n_recommendations, weights, exclude_liked) ==
    LET kept(item) == ~(exclude_liked /\ item[1] \in Range(liked_indices))
    IN  FirstN(sorted_items(merged_scores(SelectSeq(
                   all_recommendations(rows, liked_indices, n_recommendations * 2, weights),
                   kept))),
               n_recommendations)

\* _content_boost_strategy
many_content_boost_strategy(rows, liked_indices, n_recommendations, weights, exclude_liked) ==
    FirstN(sorted_items(many_boost_by_common_features(rows, liked_indices,
               many_average_strategy(rows, liked_indices, n_recommendations * 3, weights,
                                     exclude_liked))),
           n_recommendations)

\* recommend_based_on_multiple_likes
recommend_based_on_multiple_likes(rows, c) ==
    IF c.liked_indices = <<>> THEN <<>>
    ELSE CASE c.strategy = "combined" ->
                  many_combined_strategy(rows, c.liked_indices, c.n_recommendations,
                                         c.weights, c.exclude_liked)
           [] c.strategy = "average" ->
                  many_average_strategy(rows, c.liked_indices, c.n_recommendations,
                                        c.weights, c.exclude_liked)
           [] c.strategy = "union" ->
                  many_union_strategy(rows, c.liked_indices, c.n_recommendations,
                                      c.weights, c.exclude_liked)
           [] c.strategy = "content_boost" ->
                  many_content_boost_strategy(rows, c.liked_indices, c.n_recommendations,
                                              c.weights, c.exclude_liked)
           [] OTHER ->
                  many_combined_strategy(rows, c.liked_indices, c.n_recommendations,
                                         c.weights, c.exclude_liked)

\* DataFrames of four books or more
ManyFrames == {rows \in MetricFrames : Len(rows) > 3}

\* lists of at most two liked positions
ManyLikedLists(rows) ==
    {<<>>} \cup {<<p>> : p \in Positions(rows)}
           \cup {<<p, q>> : p \in Positions(rows), q \in Positions(rows)}

\* n_recommendations: one, two, the default
ManyN == {1, 2, 10}

ManyCalls(rows) ==
    [liked_indices : ManyLikedLists(rows), n_recommendations : ManyN,
     weights : {NoWeights, DEFAULT_WEIGHTS}, exclude_liked : BOOLEAN,
     strategy : Strategies]

ManyInit ==
    /\ StoreInit
    /\ rec_filtered \in ManyFrames
    /\ call \in ManyCalls(rec_filtered)
    /\ rec = NoScores
    /\ prev_call = <<>>
    /\ prev_rec = NoScores
    /\ rec_pc = "ready"

\* recommend_based_on_multiple_likes(metrics, liked_book_indices, ...)
ManyRecommend ==
    /\ rec_pc = "ready"
    /\ rec' = [recommendations |-> recommend_based_on_multiple_likes(rec_filtered, call)]
    /\ rec_pc' = "done"
    /\ UNCHANGED <<store_vars, rec_filtered, call, prev_call, prev_rec>>

\* the first call again with strategy='content_boost' instead of 'combined'
ManyContentBoost ==
    /\ rec_pc = "done" /\ prev_call = <<>> /\ call.strategy = "combined"
    /\ call' = [call EXCEPT !.strategy = "content_boost"]
    /\ rec' = [recommendations |-> recommend_based_on_multiple_likes(rec_filtered, call')]
    /\ prev_call' = call
    /\ prev_rec' = rec
    /\ UNCHANGED <<store_vars, rec_filtered, rec_pc>>

ManyNext == ManyRecommend \/ ManyContentBoost

SpecMany == ManyInit /\ [][ManyNext]_vars

-----------------------------------------------------------------------------
(* Properties of the store                                                 *)

\* the part of a state that undo is said to restore
Core(s) == [filter |-> s.filter, feedback |-> s.feedback,
            liked_indices |-> s.liked_indices,
            disliked_indices |-> s.disliked_indices]

\* filters, likes and dislikes of a state
Pref(s) == [filter |-> s.filter, feedback |-> s.feedback]

LastWasLayer == Get(parsed_query, "question_type", "") \in LayerTypes
StepBackDone == IsStepBack(parsed_query) /\ "filtered_books" \in DOMAIN result
StepBackRefused == /\ IsStepBack(parsed_query)
                   /\ "filtered_books" \notin DOMAIN result
                   /\ result.message = <<"no_history">>

\* the snapshot reset() seeds the history with
SeedSnapshot == reset.history[1]

\* C1: on a freshly constructed store, after k >= 1 consecutive Layers, a
\* successful StepBack makes filters, likes, dislikes and liked/disliked
\* indices equal to what they were just before the k-th Layer.
C1_StepBackUndoesOneLayer ==
    [][(phase = "layers" /\ phase' = "undone")
          => Core(current_state') = Core(prior)]_vars

\* C2: in every reachable state the current filters, likes and dislikes equal
\* those of the top of the history stack.
C2_CurrentIsTopOfHistory ==
    Pref(current_state) = Pref(history[Len(history)])

\* C3: the history depth stays within 1..MAX_HISTORY_STEPS, and after a run
\* of more than MAX_HISTORY_STEPS Layers at most MAX_HISTORY_STEPS - 1
\* StepBacks succeed.
C3_HistoryBound ==
    /\ Len(history) >= 1
    /\ Len(history) <= MAX_HISTORY_STEPS
    /\ layers > MAX_HISTORY_STEPS => backs <= MAX_HISTORY_STEPS - 1

\* more than MAX_HISTORY_STEPS Layers, MAX_HISTORY_STEPS - 1 StepBacks, and
\* the next StepBack refused
C3_Witness ==
    /\ layers > MAX_HISTORY_STEPS
    /\ backs = MAX_HISTORY_STEPS - 1
    /\ StepBackRefused

\* C4: a StepBack at history depth 1 is refused with a message and leaves the
\* history, the current state (filters, likes, dislikes, candidates) and the
\* loader's and metrics' candidate sets as they were.
C4_StepBackAtDepthOneIsNoOp ==
    [][(Len(history) = 1 /\ IsStepBack(parsed_query'))
          => /\ StepBackRefused'
             /\ UNCHANGED <<history, current_state, filtered_df, metrics_filtered>>]_vars

\* a refused StepBack on a store whose only snapshot is not the empty seed
C4_Witness ==
    /\ StepBackRefused
    /\ Len(history) = 1
    /\ Pref(current_state) # Pref(EmptyState)

\* C5: right after Reset the history holds one snapshot, filters, likes,
\* dislikes and their indices are empty, and the candidates are the catalog.
C5_ResetYieldsSeed ==
    IsReset(parsed_query)
        => /\ Len(history) = 1
           /\ current_state.filter = EmptyFilter
           /\ current_state.feedback = [likes |-> <<>>, dislikes |-> <<>>]
           /\ current_state.liked_indices = {}
           /\ current_state.disliked_indices = {}
           /\ current_state.filtered_books = DF(AllRows)

\* a Reset of a store that held filters, likes and a narrowed candidate set
C5_Witness ==
    /\ IsReset(parsed_query)
    /\ Val(prior.filter["genre"]) # <<>>
    /\ prior.feedback.likes # <<>>
    /\ prior.filtered_books # DF(AllRows)

\* C6: a StepBack that restores the seed snapshot yields a state whose
\* candidate set is the full catalog.
C6_RestoredSeedCoversCatalog ==
    (StepBackDone /\ history = <<SeedSnapshot>>)
        => current_state.filtered_books = DF(AllRows)

\* the filter dict of the last query, and what _extract_filters accepts of it
SuppliedFilter == Get(parsed_query, "filter", <<>>)
AcceptedFilter == _extract_filters(SuppliedFilter)

\* C7: a Layer that supplies a non-empty scalar filter value stores that
\* value under its key in the new current state's filters.
C7_ScalarFilterStored ==
    LastWasLayer
        => \A k \in ScalarKeys \cap DOMAIN AcceptedFilter :
               current_state.filter[k] = AcceptedFilter[k]

\* the list of values the last query supplies for list key k
SuppliedList(k) == IF k \in DOMAIN SuppliedFilter THEN Val(SuppliedFilter[k]) ELSE <<>>

\* C8: after a Layer, each list-valued filter key holds the prior list
\* followed by the supplied values not already present, without duplicates.
C8_ListFilterIsOrderedUnion ==
    LastWasLayer
        => \A k \in ListKeys :
               Val(current_state.filter[k])
                   = AppendNew(Val(prior.filter[k]), SuppliedList(k))

\* C9: in every reachable state the stored candidate set is what the filters
\* stored in the same state select from the full catalog.
C9_CandidatesMatchStoredFilters ==
    current_state.filtered_books
        = _apply_combined_filters(current_state.filter).filtered_books

\* the last query omits the feedback field or supplies no like and no dislike
NoFeedbackSupplied ==
    \/ "feedback" \notin DOMAIN parsed_query
    \/ /\ Get(parsed_query.feedback, "likes", <<>>) = <<>>
       /\ Get(parsed_query.feedback, "dislikes", <<>>) = <<>>

\* C10: a Layer without feedback leaves likes, dislikes and their resolved
\* catalog indices as they were.
C10_NoFeedbackKeepsPreferences ==
    (LastWasLayer /\ NoFeedbackSupplied)
        => /\ current_state.feedback = prior.feedback
           /\ current_state.liked_indices = prior.liked_indices
           /\ current_state.disliked_indices = prior.disliked_indices

\* the titles the last query supplies under feedback key k
SuppliedTitles(k) == Get(Get(parsed_query, "feedback", <<>>), k, <<>>)

NoDuplicates(l) == \A i, j \in DOMAIN l : l[i] = l[j] => i = j

\* position of the first occurrence of x in l
FirstIndex(l, x) == CHOOSE i \in DOMAIN l : l[i] = x /\ \A j \in 1..(i - 1) : l[j] # x

\* C11: likes and dislikes never hold a title twice, and a Layer only appends:
\* the list before the Layer is a prefix of the list after it, and the titles
\* added are exactly the supplied ones not yet present, in the order supplied.
C11_FeedbackAppendsWithoutDuplicates ==
    \A k \in {"likes", "dislikes"} :
        LET old == prior.feedback[k]
            new == current_state.feedback[k]
            sup == SuppliedTitles(k)
        IN  /\ NoDuplicates(new)
            /\ LastWasLayer
                  => /\ Len(old) <= Len(new)
                     /\ SubSeq(new, 1, Len(old)) = old
                     /\ Range(new) = Range(old) \cup Range(sup)
                     /\ \A i, j \in (Len(old) + 1)..Len(new) :
                            i < j => FirstIndex(sup, new[i]) < FirstIndex(sup, new[j])

\* a Layer met stored likes with a title already stored, a title listed twice
\* and new titles
C11_Witness ==
    /\ LastWasLayer
    /\ prior.feedback.likes # <<>>
    /\ Range(SuppliedTitles("likes")) \cap Range(prior.feedback.likes) # {}
    /\ Len(current_state.feedback.likes) > Len(prior.feedback.likes)
    /\ ~NoDuplicates(SuppliedTitles("dislikes"))
    /\ Len(current_state.feedback.dislikes) = Len(prior.feedback.dislikes) + 1

\* the last query carries a list under the genre filter key
GenreListSupplied ==
    /\ "genre" \in DOMAIN SuppliedFilter
    /\ IsList(SuppliedFilter["genre"])

\* C12: a Layer with a list-valued genre filter, applied a second time in a
\* row, leaves the filters and the candidate set as the first application
\* left them.
C12_GenreLayerIdempotent ==
    (LastWasLayer /\ repeated /\ GenreListSupplied)
        => /\ current_state.filter = prior.filter
           /\ current_state.filtered_books = prior.filtered_books

\* the repeated Layer names genres and the state it started from had stored
\* genres of another Layer already
C12_Witness ==
    /\ LastWasLayer /\ repeated /\ GenreListSupplied
    /\ Val(SuppliedFilter["genre"]) # <<>>
    /\ Range(Val(current_state.filter["genre"]))
           \ Range(Val(SuppliedFilter["genre"])) # {}

\* C27: a Layer leaves every snapshot already in the history as it was and
\* pushes the state as it was before the Layer; a successful StepBack restores
\* the snapshot below the top with the contents it was pushed with and leaves
\* the snapshots beneath as they were.
C27_SnapshotIsolation ==
    [][/\ LastWasLayer'
          => /\ Len(history') = Min(Len(history) + 1, MAX_HISTORY_STEPS)
             /\ history'[Len(history')] = current_state
             /\ \A i \in 1..(Len(history') - 1) :
                    history'[i] = history[i + Len(history) + 1 - Len(history')]
       /\ StepBackDone'
          => /\ history' = SubSeq(history, 1, Len(history) - 1)
             /\ current_state' = history[Len(history) - 1]]_vars

\* a Layer extended a non-empty genre list in place, the state holds likes,
\* and the snapshot on top of the history holds the shorter genre list
C27_Witness ==
    /\ LastWasLayer
    /\ history[Len(history)] = prior
    /\ Val(prior.filter["genre"]) # <<>>
    /\ Len(Val(current_state.filter["genre"])) > Len(Val(prior.filter["genre"]))
    /\ prior.feedback.likes # <<>>
    /\ Len(history) > 2

-----------------------------------------------------------------------------
(* Properties of the recommender                                           *)

\* the call returned
Returned == rec_pc = "done"

\* the catalog index of the candidate at position p of the active catalog
Label(p) == rec_filtered[p + 1]

\* the weights the strategies are given
CallWeights == IF call.weights = NoWeights THEN DEFAULT_WEIGHTS ELSE call.weights

\* the candidates the call ranked, by catalog index
Ranked == {Label(rec.recommendations[i][1]) : i \in DOMAIN rec.recommendations}

MeanSimilarity(item, liked_indices, weights) ==
    avg_similarity(AllRows, item, liked_indices, weights)

\* C14: under strategy average without dislikes, the score returned for the
\* candidate at position p of the active catalog is the mean similarity between
\* that candidate's own record and the liked items' records in the full
\* catalog, also when the active catalog is a strict subset of the full one.
C14_ScoreIsOfTheCandidate ==
    (Returned /\ call.liked_indices # <<>> /\ call.disliked_indices = <<>>
              /\ call.strategy = "average")
        => \A p \in DOMAIN rec.all_scores :
               rec.all_scores[p] = MeanSimilarity(Label(p), call.liked_indices, CallWeights)

\* C15: with a non-empty likes list no liked item is in the ranked output, and
\* (without dislikes) every active candidate that is not liked is scored.
C15_LikedExcludedOnly ==
    (Returned /\ call.liked_indices # <<>>)
        => /\ Ranked \cap Range(call.liked_indices) = {}
           /\ call.disliked_indices = <<>>
                 => \A p \in Positions(rec_filtered) :
                        Label(p) \notin Range(call.liked_indices)
                            => p \in DOMAIN rec.all_scores

\* C16: for every penalty factor, a candidate that is one of the disliked
\* items is not in the ranked output.
C16_DislikedRemoved ==
    (Returned /\ call.liked_indices # <<>>)
        => Ranked \cap Range(call.disliked_indices) = {}

\* the call before this one differed in the penalty factor only, which was lower
PenaltyRaised ==
    /\ Returned /\ prev_call # <<>>
    /\ prev_call = [call EXCEPT !.penalty_factor = prev_call.penalty_factor]
    /\ prev_call.penalty_factor <= call.penalty_factor

\* C17: with everything else fixed, a larger penalty factor scores the same
\* candidates and gives none of them a larger final score.
C17_PenaltyMonotone ==
    PenaltyRaised
        => /\ DOMAIN rec.all_scores = DOMAIN prev_rec.all_scores
           /\ \A p \in DOMAIN rec.all_scores :
                  rec.all_scores[p] <= prev_rec.all_scores[p]

\* a larger factor lowered a score that stays positive
C17_Witness ==
    /\ PenaltyRaised
    /\ call.disliked_indices # <<>>
    /\ \E p \in DOMAIN rec.all_scores :
           0 < rec.all_scores[p] /\ rec.all_scores[p] < prev_rec.all_scores[p]

RECURSIVE GreatestSimilarity(_, _, _)
\* the greatest similarity of the catalog item to the items of a non-empty list
GreatestSimilarity(item, indices, weights) ==
    IF Len(indices) = 1 THEN similarity_score(AllRows, item, indices[1], weights)
    ELSE Max(similarity_score(AllRows, item, Head(indices), weights),
             GreatestSimilarity(item, Tail(indices), weights))

\* the strategy's score of each position before the dislike penalty
StrategyScore == StrategyScores(AllRows, rec_filtered, call.liked_indices,
                                call.strategy, CallWeights)

\* C18: with a disliked item supplied, each remaining candidate's final score
\* is max(score * (1 - maxDislikeSimilarity * penaltyFactor), 0), with
\* maxDislikeSimilarity the greatest similarity of the candidate to a disliked
\* item; no returned score is negative.
C18_PenaltyFormula ==
    (Returned /\ call.liked_indices # <<>> /\ call.disliked_indices # <<>>)
        => \A p \in DOMAIN rec.all_scores :
               /\ rec.all_scores[p] >= 0
               /\ rec.all_scores[p]
                     = Max(ExactDiv(StrategyScore[p], PenaltyUnit)
                              * (PenaltyUnit
                                   - GreatestSimilarity(Label(p), call.disliked_indices,
                                                        NoWeights)
                                       * call.penalty_factor),
                           0)

\* C19: under strategy union each non-liked candidate's score is the greatest
\* similarity of the candidate to a liked item, also when every such
\* similarity is negative.
C19_UnionIsGreatestSimilarity ==
    (Returned /\ call.liked_indices # <<>> /\ call.disliked_indices = <<>>
              /\ call.strategy = "union")
        => \A p \in DOMAIN rec.all_scores :
               rec.all_scores[p]
                   = GreatestSimilarity(Label(p), call.liked_indices, CallWeights)
                         * (ScoreUnit \div SimUnit)

\* strategy names that select the boosted average
BoostedAverage == {"combined", "content_boost", "other"}

\* the call before this one differed in the strategy only, both strategies
\* being combined, content_boost or an unrecognized name
AliasSwitched ==
    /\ Returned /\ prev_call # <<>>
    /\ prev_call = [call EXCEPT !.strategy = prev_call.strategy]
    /\ prev_call.strategy # call.strategy
    /\ {prev_call.strategy, call.strategy} \subseteq BoostedAverage

\* C20: strategies combined and content_boost, and an unrecognized strategy
\* name, return the same ranked list: same items, same scores, same order.
C20_CombinedEqualsContentBoost ==
    AliasSwitched
        => /\ rec.recommendations = prev_rec.recommendations
           /\ rec.all_scores = prev_rec.all_scores

\* the two calls ranked several candidates and the booster changed a score
C20_Witness ==
    /\ AliasSwitched
    /\ "content_boost" \in {prev_call.strategy, call.strategy}
    /\ Len(rec.recommendations) > 1
    /\ call.disliked_indices # <<>>
    /\ \E p \in DOMAIN rec.all_scores :
           rec.all_scores[p]
               # _apply_dislike_penalty(AllRows,
                     _average_strategy(AllRows, rec_filtered, call.liked_indices,
                                       CallWeights),
                     call.disliked_indices, call.penalty_factor)[p]

\* x comes before y in a descending, stable sort of all_scores
Before(x, y) ==
    \/ rec.all_scores[x] > rec.all_scores[y]
    \/ rec.all_scores[x] = rec.all_scores[y] /\ x < y

\* the positions the call returned
RankedPositions == {rec.recommendations[i][1] : i \in DOMAIN rec.recommendations}

\* C22: the ranked output is in non-increasing score order, equal scores in
\* candidate order, has at most n_recommendations entries and is the first n
\* entries of the whole sorted list.
C22_RankedSortedStableTruncated ==
    (Returned /\ call.liked_indices # <<>>)
        => /\ Len(rec.recommendations)
                 = Min(call.n_recommendations, Cardinality(DOMAIN rec.all_scores))
           /\ \A i \in DOMAIN rec.recommendations :
                  /\ rec.recommendations[i][1] \in DOMAIN rec.all_scores
                  /\ rec.recommendations[i][2]
                         = rec.all_scores[rec.recommendations[i][1]]
           /\ \A i, j \in DOMAIN rec.recommendations :
                  i < j => Before(rec.recommendations[i][1], rec.recommendations[j][1])
           /\ \A x \in RankedPositions :
                  \A y \in DOMAIN rec.all_scores \ RankedPositions : Before(x, y)

\* a list cut to one entry whose score another candidate shares
C22_Witness ==
    /\ Returned /\ call.liked_indices # <<>>
    /\ Len(rec.recommendations) = 1
    /\ \E y \in DOMAIN rec.all_scores \ RankedPositions :
           rec.all_scores[y] = rec.recommendations[1][2]

\* C28: when the caller supplies weights, the similarity to the disliked items
\* that the penalty uses is computed with those weights, as the similarity to
\* the liked items is.
C28_PenaltyUsesCallerWeights ==
    (Returned /\ call.liked_indices # <<>> /\ call.disliked_indices # <<>>
              /\ call.weights # NoWeights)
        => \A p \in DOMAIN rec.all_scores :
               rec.all_scores[p]
                   = Max(ExactDiv(StrategyScore[p], PenaltyUnit)
                            * (PenaltyUnit
                                 - max_similarity(AllRows, p, call.disliked_indices,
                                                  call.weights)
                                     * call.penalty_factor),
                         0)

\* C29: under a boosted strategy without dislikes no candidate's score is
\* below its average similarity to the liked items, also when that average is
\* negative.
C29_BoostIsReward ==
    (Returned /\ call.liked_indices # <<>> /\ call.disliked_indices = <<>>
              /\ call.strategy \in BoostedAverage)
        => \A p \in DOMAIN rec.all_scores :
               rec.all_scores[p]
                   >= _average_strategy(AllRows, rec_filtered, call.liked_indices,
                                        CallWeights)[p]

-----------------------------------------------------------------------------
(* Properties of the metric                                                *)

\* a taxonomic_distance call returned / a composite_distance call returned
TaxonomicReturned == rec_pc = "done" /\ call.op = "taxonomic_distance"
CompositeReturned == rec_pc = "done" /\ call.op = "composite_distance"

\* the label has a path in the genre mapping table
Mapped(genre) == genre \in DOMAIN genre_mapping

\* C23: the composite distance from an item to itself is 0 (its similarity to
\* itself is 1.0) for any weights, also when its genre is not in the genre
\* mapping table.
C23_DistanceToSelfIsZero ==
    (CompositeReturned /\ call.book1_idx = call.book2_idx) => rec.value = 0

\* C24: exchanging the two items of a composite distance, or the two genres
\* of a taxonomic distance, gives the same value.
C24_DistanceSymmetric ==
    (rec_pc = "done" /\ prev_call # <<>>) => rec.value = prev_rec.value

\* two books with mapped genres of different depth, exchanged
C24_Witness ==
    /\ CompositeReturned /\ prev_call # <<>>
    /\ call.book1_idx # call.book2_idx
    /\ Mapped(iloc(rec_filtered, call.book1_idx).genre)
    /\ Mapped(iloc(rec_filtered, call.book2_idx).genre)
    /\ iloc(rec_filtered, call.book1_idx).genre # iloc(rec_filtered, call.book2_idx).genre
    /\ iloc(rec_filtered, call.book1_idx).year # iloc(rec_filtered, call.book2_idx).year
    /\ rec.value > 0

CommonLevel(path1, path2) ==
    Cardinality({n \in 1..Min(Len(path1), Len(path2)) :
                    \A i \in 1..n : path1[i] = path2[i]})

\* C26: for two mapped genres taxonomic_distance is
\* min((depthA + depthB - 2*commonLevel) / (2*maxDepth), 1.0), lies in [0, 1]
\* and is 0 for a genre against itself.
C26_TaxonomicFormula ==
    (TaxonomicReturned /\ Mapped(call.genre1) /\ Mapped(call.genre2))
        => LET pathA == genre_mapping[call.genre1]
               pathB == genre_mapping[call.genre2]
           IN  /\ rec.value * 2 * max_depth
                     = Min((Len(pathA) + Len(pathB) - 2 * CommonLevel(pathA, pathB))
                              * DistUnit,
                           2 * max_depth * DistUnit)
               /\ 0 <= rec.value /\ rec.value <= DistUnit
               /\ call.genre1 = call.genre2 => rec.value = 0

\* two mapped genres of different depth in one branch
C26_Witness ==
    /\ TaxonomicReturned /\ Mapped(call.genre1) /\ Mapped(call.genre2)
    /\ Len(genre_mapping[call.genre1]) < Len(genre_mapping[call.genre2])
    /\ CommonLevel(genre_mapping[call.genre1], genre_mapping[call.genre2]) > 1
    /\ 0 < rec.value /\ rec.value < DistUnit

-----------------------------------------------------------------------------
(* Properties of recommend_based_on_multiple_likes                         *)

\* the genres / the authors of the liked books of the call
ManyGenres == [i \in DOMAIN call.liked_indices |-> iloc(rec_filtered, call.liked_indices[i]).genre]
ManyAuthors == [i \in DOMAIN call.liked_indices |-> iloc(rec_filtered, call.liked_indices[i]).author]

\* C21: the booster multiplies a candidate's score by 1.2 for the modal liked
\* genre, by 1.3 for the modal liked author, by (1 + 0.15*g) when g > 1 liked
\* items share its genre and by (1 + 0.2*a) when a > 1 liked items share its
\* author, the modal value being the first encountered among ties.
C21_BoostFactors ==
    (rec_pc = "done" /\ call.strategy = "combined")
        => \A i \in DOMAIN rec.recommendations :
              rec.recommendations[i][2]
                  = ExactDiv(many_avg_similarity(rec_filtered, rec.recommendations[i][1],
                                                 call.liked_indices, call.weights),
                             BoostUnit)
                    * Boost(ManyGenres, ManyAuthors,
                            iloc(rec_filtered, rec.recommendations[i][1]))

\* C30: strategy content_boost returns the same ranked list as strategy
\* combined, for every catalog, likes list and n_recommendations.
C30_ContentBoostIsCombined ==
    (rec_pc = "done" /\ prev_call # <<>>)
        => rec.recommendations = prev_rec.recommendations

====
